---- MODULE Spec2Model ----
(***************************************************************************)
(* Model of the incremental migration core of evernote-to-obsidian:        *)
(*   - DeduplicationManager (src/src/deduplication_manager.py): the        *)
(*     persisted migration history and the per-note protocol run on it;    *)
(*   - SyncState / SyncManager (src/src/sync_manager.py), FileOrganizer    *)
(*     (src/src/file_organizer.py) and the conversion loop of              *)
(*     EvernoteToObsidianConverter (src/src/evernote2obsidian.py).         *)
(*                                                                         *)
(* Strings that the code inspects character by character (note bodies)     *)
(* are sequences of one-character strings.  md5/sha256 digests are taken   *)
(* to be collision free: a digest is represented by the value digested.    *)
(* Timestamps (processed_time, start_time, ...) are not represented.       *)
(***************************************************************************)
EXTENDS Integers, Sequences, FiniteSets, TLC

\* ------------------------------------------------------------------ bounds
\* Longest bundle set (number of notes presented in one session or run).
MaxNotes == 2
\* Number of runs of the conversion pipeline explored.
MaxRuns == 2
\* Number of failed or interrupted writes explored in one behaviour.
MaxFailures == 1

\* ------------------------------------------------------------ input domains
\* The value of note_data.get('guid') or note_data.get('id') when neither key
\* carries a truthy value.
NoId == <<>>
Guids == {<<"A">>, <<"B">>}
\* One title: no decision of the manager reads the title.
Titles == {"T1"}
\* Note bodies: "a", "a " (a trailing-whitespace edit of "a") and "b".
Contents == {<<"a">>, <<"a", " ">>, <<"b">>}

\* The note_data dictionaries handed to DeduplicationManager.
NoteData ==
    [guid : Guids, title : Titles, content : Contents]
        \cup [guid : {NoId}, title : Titles, content : {<<"a">>, <<"b">>}]

RECURSIVE SeqsUpTo(_, _)
SeqsUpTo(S, n) ==
    IF n = 0 THEN {<<>>}
    ELSE LET shorter == SeqsUpTo(S, n - 1)
         IN  shorter \cup {Append(s, x) : s \in shorter, x \in S}

\* ------------------------------------------------- content fingerprint
IsSpace(c) == c \in {" ", "\n", "\t"}

RECURSIVE LStrip(_)
LStrip(s) ==
    IF s = <<>> THEN s
    ELSE IF IsSpace(Head(s)) THEN LStrip(Tail(s)) ELSE s

RECURSIVE RStrip(_)
RStrip(s) ==
    IF s = <<>> THEN s
    ELSE IF IsSpace(s[Len(s)]) THEN RStrip(SubSeq(s, 1, Len(s) - 1)) ELSE s

\* str.strip()
Strip(s) == RStrip(LStrip(s))

\* str.split('\n')
RECURSIVE SplitLines(_)
SplitLines(s) ==
    IF \A i \in 1..Len(s) : s[i] # "\n" THEN <<s>>
    ELSE LET k == CHOOSE i \in 1..Len(s) :
                      s[i] = "\n" /\ \A j \in 1..(i - 1) : s[j] # "\n"
         IN  <<SubSeq(s, 1, k - 1)>> \o SplitLines(SubSeq(s, k + 1, Len(s)))

\* '\n'.join(lines)
RECURSIVE JoinLines(_)
JoinLines(ls) ==
    IF Len(ls) = 0 THEN <<>>
    ELSE IF Len(ls) = 1 THEN ls[1]
    ELSE ls[1] \o <<"\n">> \o JoinLines(Tail(ls))

\* DeduplicationManager._calculate_content_hash: the md5 digest of the
\* normalized content, represented by the normalized content itself.
calculate_content_hash(content) ==
    LET lines == SplitLines(Strip(content))
    IN  JoinLines([i \in 1..Len(lines) |-> RStrip(lines[i])])

\* DeduplicationManager._normalize_title (titles here carry no blanks or
\* upper/lower variants, so strip().lower() leaves them as they are).
normalize_title(title) == title

\* ------------------------------------------------------------------ state
VARIABLES
    \* DeduplicationManager.history
    migrations,        \* history['migrations']
    processed_notes,   \* history['processed_notes'] : note_id -> note_info
    deleted_notes,     \* history['deleted_notes']   : note_id -> deletion_info
    last_migration,    \* history['last_migration']
    persisted,         \* content of .migration_history.json
    torn,              \* .migration_history.json was left empty or cut short
    saved_body_of,     \* body_of, for the records of the persisted history
    files,             \* output files that exist on disk
    \* the caller running the per-note protocol on a bundle set
    dpc,               \* position of the caller
    bundle,            \* the notes of the bundle set of the session
    idx,               \* index of the next note to present
    decision,          \* result of the last should_process_note
    current_ids,       \* ids of the notes presented in this session
    session,           \* bookkeeping on the current session
    body_of            \* note_id -> the body last committed under it (the
                       \* record keeps its digest only)

VARIABLES
    \* SyncState, FileOrganizer and the conversion loop
    cwd_is_vault,      \* the process runs with the vault as working directory
    sync_state,        \* SyncState.state_data of the running process
    sync_persisted,    \* content of .sync_state.json
    vault,             \* the documents under the output root: path -> file
    inputs,            \* the bundle files of input.enex_files, as configured
    todo,              \* the bundle files the loop of _run_conversion has left
    enex,              \* the bundle file the loop is at
    rpc,               \* position of the conversion run
    organized,         \* organized_notes of _convert_notes
    ridx,              \* index of the next entry of organized_notes
    run                \* counters of the run and bookkeeping

VARIABLES
    \* ENEXParser._parse_note and MarkdownConverter.convert_note on one note
    conv_config,       \* MarkdownConverter.config
    note_elem,         \* the <note> element of the bundle file
    parsed,            \* the Note that _parse_note returned
    markdown,          \* the string that convert_note returned
    cpc                \* "idle" | "element" | "parsed" | "rendered"

VARIABLES
    \* The change-detection comparisons, each on its own
    compare            \* a committed body, a presented body, the verdicts

cmpVars == <<compare>>

convVars == <<conv_config, note_elem, parsed, markdown, cpc>>

syncVars == <<cwd_is_vault, sync_state, sync_persisted, vault, inputs, todo,
              enex, rpc,
              organized, ridx, run>>

dedupVars == <<migrations, processed_notes, deleted_notes, last_migration,
               persisted, torn, saved_body_of, files, dpc, bundle, idx, decision,
               current_ids,
               session, body_of>>

vars == <<dedupVars, syncVars, convVars, cmpVars>>

NoMigration == "None"
\* The migration ids callers pass to start_migration when every session
\* takes an id of its own (migration_1, migration_2 in test_deduplication.py).
MigrationIds == <<"m1", "m2", "m3">>
\* The migration ids of callers that may pass an id again (the fixed id of
\* test_conversion.py); as many sessions are explored as there are ids.
SessionIds == {"m1", "m2"}

EmptyMap == [x \in {} |-> x]

\* DeduplicationManager._load_history, no history file present.
EmptyHistory ==
    [migrations |-> <<>>, processed_notes |-> EmptyMap,
     deleted_notes |-> EmptyMap, last_migration |-> NoMigration]

History ==
    [migrations |-> migrations, processed_notes |-> processed_notes,
     deleted_notes |-> deleted_notes, last_migration |-> last_migration]

NoDecision == [accept |-> FALSE, reason |-> "none"]

InitDedup ==
    /\ migrations = <<>>
    /\ processed_notes = EmptyMap
    /\ deleted_notes = EmptyMap
    /\ last_migration = NoMigration
    /\ persisted = EmptyHistory
    /\ torn = FALSE
    /\ saved_body_of = EmptyMap
    /\ files = {}
    /\ dpc = "idle"
    /\ bundle = <<>>
    /\ idx = 1
    /\ decision = NoDecision
    /\ current_ids = {}
    /\ session = [count |-> 0, replay |-> FALSE, protocol_only |-> TRUE,
                  written |-> 0, updates |-> 0, cleaned |-> 0, reappeared |-> {},
                  fresh |-> FALSE, committed |-> {}]
    /\ body_of = EmptyMap


\* ------------------------------------------------------------ map helpers
MapPut(f, k, v) == [x \in DOMAIN f \cup {k} |-> IF x = k THEN v ELSE f[x]]
MapDel(f, K) == [x \in DOMAIN f \ K |-> f[x]]

\* --------------------------------------------- DeduplicationManager: parts
\* note_data.get('guid') or note_data.get('id')
NoteIdOf(note) == note.guid

NewStats == [total_notes |-> 0, new_notes |-> 0, skipped_duplicates |-> 0,
             updated_notes |-> 0]

\* Index of the first entry of migs whose migration_id is mid, 0 if none:
\* the entry the for/break loops of _update_migration_stats and
\* finish_migration act on.
FirstMigration(migs, mid) ==
    IF \E i \in 1..Len(migs) : migs[i].migration_id = mid
    THEN CHOOSE i \in 1..Len(migs) :
             /\ migs[i].migration_id = mid
             /\ \A j \in 1..(i - 1) : migs[j].migration_id # mid
    ELSE 0

\* Variant of _update_migration_stats that leaves total_notes as it is.
update_migration_stats_KeyOnly(migs, last, stat_key) ==
    LET i == FirstMigration(migs, last)
    IN  IF last = NoMigration \/ i = 0 THEN migs
        ELSE [migs EXCEPT ![i].stats = [@ EXCEPT ![stat_key] = @ + 1]]

\* _update_migration_stats: one more in stat_key and in total_notes of the
\* first entry that carries the id of last_migration.
update_migration_stats(migs, last, stat_key) ==
    LET i == FirstMigration(migs, last)
    IN  IF last = NoMigration \/ i = 0 THEN migs
        ELSE [migs EXCEPT ![i].stats =
                 [@ EXCEPT ![stat_key] = @ + 1, !.total_notes = @ + 1]]

\* Variant of step 0 that leaves deleted_notes as it is.
Reappear_Keep(note, deleted) == deleted

\* Step 0 of should_process_note: a note_id found in deleted_notes is taken
\* out of it.
Reappear(note, deleted) ==
    IF NoteIdOf(note) # NoId /\ NoteIdOf(note) \in DOMAIN deleted
    THEN MapDel(deleted, {NoteIdOf(note)})
    ELSE deleted

\* Variant of the classification without the lookup by note_id (step 1).
Classify_ContentOnly(note, processed) ==
    IF \E id \in DOMAIN processed :
           processed[id].content_hash = calculate_content_hash(note.content)
    THEN [accept |-> FALSE, reason |-> "duplicate"]
    ELSE [accept |-> TRUE, reason |-> "new"]

\* Variant of the classification without the scan by content hash (step 2).
Classify_IdOnly(note, processed) ==
    LET note_id == NoteIdOf(note)
    IN  IF note_id # NoId /\ note_id \in DOMAIN processed
        THEN IF processed[note_id].content_hash = calculate_content_hash(note.content)
             THEN [accept |-> FALSE, reason |-> "unchanged"]
             ELSE [accept |-> TRUE, reason |-> "updated"]
        ELSE [accept |-> TRUE, reason |-> "new"]

\* Steps 1 to 3 of should_process_note: (should_process, reason).
Classify(note, processed) ==
    LET note_id == NoteIdOf(note)
        content_hash == calculate_content_hash(note.content)
    IN  IF note_id # NoId /\ note_id \in DOMAIN processed
        THEN IF processed[note_id].content_hash = content_hash
             THEN [accept |-> FALSE, reason |-> "unchanged"]
             ELSE [accept |-> TRUE, reason |-> "updated"]
        ELSE IF \E id \in DOMAIN processed :
                    processed[id].content_hash = content_hash
             THEN [accept |-> FALSE, reason |-> "duplicate"]
             ELSE [accept |-> TRUE, reason |-> "new"]

\* The note_id mark_note_processed files the record under.
ProcessedIdOf(note) ==
    IF NoteIdOf(note) # NoId THEN NoteIdOf(note)
    ELSE calculate_content_hash(note.content)

NoteInfo(note, output_file, is_update, last) ==
    [note_id |-> ProcessedIdOf(note),
     title |-> note.title,
     content_hash |-> calculate_content_hash(note.content),
     output_file |-> output_file,
     migration_id |-> last,
     is_update |-> is_update]

\* The ids detect_deleted_notes hands to mark_note_deleted.
DeletedNow(processed, deleted, ids) ==
    {id \in DOMAIN processed \ ids : id \notin DOMAIN deleted}

\* The output path the caller writes an accepted note to: <guid>.md as in
\* test_multiple_migrations, and a path made from the title for a note that
\* has no guid.
OutputPath(note) ==
    IF note.guid # NoId THEN <<"guid", note.guid>> ELSE <<"title", note.title>>

\* ------------------------------------------------ bundle sets across runs
Bundles == SeqsUpTo(NoteData, MaxNotes) \ {<<>>}

\* The bodies a note of this identity can carry.
BodiesOf(note) ==
    {n.content : n \in {m \in NoteData : m.guid = note.guid
                                          /\ m.title = note.title}}

RemoveAt(s, i) == SubSeq(s, 1, i - 1) \o SubSeq(s, i + 1, Len(s))

\* The bundle set a later session reads: the previous one unchanged, with a
\* note removed, with a note added, or with the body of one note edited.
NextBundles(b) ==
    {b}
      \cup {RemoveAt(b, i) : i \in 1..Len(b)}
      \cup (IF Len(b) < MaxNotes THEN {Append(b, n) : n \in NoteData} ELSE {})
      \cup UNION {{[b EXCEPT ![i].content = c] : c \in BodiesOf(b[i])} :
                      i \in 1..Len(b)}

\* ------------------------------------------- DeduplicationManager: actions
\* The caller reads a bundle set and opens a session: start_migration.
StartMigration(migration_id, b) ==
    /\ dpc = "idle"
    /\ b # <<>>
    /\ migrations' = Append(migrations,
           [migration_id |-> migration_id, status |-> "running",
            ended |-> FALSE, stats |-> NewStats])
    /\ last_migration' = migration_id
    /\ persisted' = [History EXCEPT !.migrations = migrations',
                                    !.last_migration = migration_id]
    /\ torn' = FALSE
    /\ saved_body_of' = body_of
    /\ bundle' = b
    /\ idx' = 1
    /\ decision' = NoDecision
    /\ current_ids' = {}
    /\ session' = [count |-> session.count + 1,
                   replay |-> session.count >= 1 /\ session.protocol_only
                              /\ b = bundle,
                   protocol_only |-> TRUE, written |-> 0, updates |-> 0,
                   cleaned |-> 0, reappeared |-> {},
                   fresh |-> session.fresh, committed |-> session.committed]
    /\ dpc' = "present"
    /\ UNCHANGED <<processed_notes, deleted_notes, files, body_of>>
    /\ UNCHANGED <<syncVars, convVars, cmpVars>>

ShouldProcessNote ==
    /\ dpc = "present"
    /\ idx <= Len(bundle)
    /\ deleted_notes' = Reappear(bundle[idx], deleted_notes)
    /\ decision' = Classify(bundle[idx], processed_notes)
    /\ session' = [session EXCEPT !.reappeared =
           @ \cup (DOMAIN deleted_notes \ DOMAIN deleted_notes')]
    /\ dpc' = "decided"
    /\ UNCHANGED <<migrations, processed_notes, last_migration, persisted,
                   torn, saved_body_of, files, bundle, idx, current_ids, body_of>>
    /\ UNCHANGED <<syncVars, convVars, cmpVars>>

\* On accept: the caller writes the file, then mark_note_processed, with
\* is_update set for a note accepted as an update (test_deduplication.py).
MarkNoteProcessed(is_update) ==
    /\ dpc = "decided"
    /\ decision.accept
    /\ LET note == bundle[idx]
           output_file == OutputPath(note)
       IN  /\ files' = files \cup {output_file}
           /\ processed_notes' =
                  MapPut(processed_notes, ProcessedIdOf(note),
                         NoteInfo(note, output_file, is_update, last_migration))
           /\ migrations' = update_migration_stats(migrations, last_migration,
                  IF is_update THEN "updated_notes" ELSE "new_notes")
           /\ current_ids' = current_ids \cup
                  (IF note.guid # NoId THEN {note.guid} ELSE {})
           /\ body_of' = MapPut(body_of, ProcessedIdOf(note), note.content)
    /\ session' = [session EXCEPT
           !.written = @ + 1,
           !.updates = @ + (IF is_update THEN 1 ELSE 0),
           !.committed = IF session.fresh
                         THEN @ \cup {calculate_content_hash(bundle[idx].content)}
                         ELSE @]
    /\ idx' = idx + 1
    /\ dpc' = "present"
    /\ UNCHANGED <<deleted_notes, last_migration, persisted, torn,
                   saved_body_of, bundle,
                   decision>>
    /\ UNCHANGED <<syncVars, convVars, cmpVars>>

\* On reject: mark_note_skipped.
MarkNoteSkipped ==
    /\ dpc = "decided"
    /\ ~decision.accept
    /\ migrations' = update_migration_stats(migrations, last_migration,
                                            "skipped_duplicates")
    /\ current_ids' = current_ids \cup
           (IF bundle[idx].guid # NoId THEN {bundle[idx].guid} ELSE {})
    /\ idx' = idx + 1
    /\ dpc' = "present"
    /\ UNCHANGED <<processed_notes, deleted_notes, last_migration, persisted,
                   torn, saved_body_of, files, bundle, decision, session, body_of>>
    /\ UNCHANGED <<syncVars, convVars, cmpVars>>

\* detect_deleted_notes(current_note_ids), with mark_note_deleted for each id
\* it finds, once the notes of the bundle set have been classified.
DetectDeletedNotes ==
    /\ dpc = "present"
    /\ idx > Len(bundle)
    /\ LET gone == DeletedNow(processed_notes, deleted_notes, current_ids)
       IN  /\ deleted_notes' =
                  [id \in DOMAIN deleted_notes \cup gone |->
                      IF id \in gone
                      THEN [title |-> processed_notes[id].title,
                            migration_id |-> last_migration]
                      ELSE deleted_notes[id]]
           /\ files' = files \ {processed_notes[id].output_file : id \in gone}
           /\ processed_notes' = MapDel(processed_notes, gone)
           /\ body_of' = MapDel(body_of, gone)
    /\ session' = [session EXCEPT !.protocol_only = FALSE]
    /\ dpc' = "reconciled"
    /\ UNCHANGED <<migrations, last_migration, persisted, torn,
                   saved_body_of, bundle, idx,
                   decision, current_ids>>
    /\ UNCHANGED <<syncVars, convVars, cmpVars>>

FinishMigration(success) ==
    /\ dpc \in {"present", "reconciled"}
    /\ idx > Len(bundle)
    /\ LET i == FirstMigration(migrations, last_migration)
       IN  migrations' =
               IF last_migration = NoMigration \/ i = 0 THEN migrations
               ELSE [migrations EXCEPT
                        ![i].status = IF success THEN "completed" ELSE "failed",
                        ![i].ended = TRUE]
    /\ persisted' = IF last_migration = NoMigration THEN persisted
                    ELSE [History EXCEPT !.migrations = migrations']
    /\ torn' = (last_migration = NoMigration /\ torn)
    /\ saved_body_of' = IF last_migration = NoMigration THEN saved_body_of
                        ELSE body_of
    /\ dpc' = "idle"
    /\ decision' = NoDecision
    /\ UNCHANGED <<processed_notes, deleted_notes, last_migration, files,
                   bundle, idx, current_ids, session, body_of>>
    /\ UNCHANGED <<syncVars, convVars, cmpVars>>

\* Variant of the scan of clean_orphaned_files that keeps no record.
valid_notes_None(processed, disk) == {}

\* The scan of clean_orphaned_files: the ids of the records whose
\* output_file exists.
valid_notes(processed, disk) ==
    {id \in DOMAIN processed : processed[id].output_file \in disk}

\* clean_orphaned_files, between sessions; session.cleaned is the count it
\* returns.  The history is replaced and saved only when the count is
\* positive.
CleanOrphanedFiles ==
    /\ dpc = "idle"
    /\ LET valid == valid_notes(processed_notes, files)
           cleaned_count == Cardinality(DOMAIN processed_notes \ valid)
       IN  /\ session' = [session EXCEPT
                              !.cleaned = cleaned_count,
                              !.protocol_only = @ /\ cleaned_count = 0]
           /\ IF cleaned_count > 0
              THEN /\ processed_notes' = [id \in valid |-> processed_notes[id]]
                   /\ persisted' =
                          [History EXCEPT !.processed_notes = processed_notes']
                   /\ torn' = FALSE
                   /\ body_of' = [id \in valid |-> body_of[id]]
                   /\ saved_body_of' = body_of'
              ELSE UNCHANGED <<processed_notes, persisted, torn, body_of,
                               saved_body_of>>
    /\ UNCHANGED <<migrations, deleted_notes, last_migration, files, dpc,
                   bundle, idx, decision, current_ids>>
    /\ UNCHANGED <<syncVars, convVars, cmpVars>>

\* finish_migration is interrupted in _save_history: before the file is
\* opened (the file keeps the previous document), or after open(..., 'w')
\* truncated it and before json.dump wrote the whole document.  The process
\* ends.
FinishMigrationInterrupted(opened) ==
    /\ dpc \in {"present", "reconciled"}
    /\ idx > Len(bundle)
    /\ last_migration # NoMigration
    /\ session.count = Len(migrations)
    /\ torn' = opened
    /\ dpc' = "interrupted"
    /\ decision' = NoDecision
    /\ UNCHANGED <<migrations, processed_notes, deleted_notes, last_migration,
                   persisted, saved_body_of, files, bundle, idx, current_ids,
                   session, body_of>>
    /\ UNCHANGED <<syncVars, convVars, cmpVars>>

\* Variant of _load_history that takes what the file held before the
\* interrupted write.
load_history_Keep(document, cut_short) == document

\* DeduplicationManager._load_history: the document of the history file, or
\* the default history when the file cannot be parsed.
load_history(document, cut_short) ==
    IF cut_short THEN EmptyHistory ELSE document

\* A new process constructs the manager: __init__, _load_history.
LoadHistory ==
    /\ dpc = "interrupted"
    /\ LET h == load_history(persisted, torn)
       IN  /\ migrations' = h.migrations
           /\ processed_notes' = h.processed_notes
           /\ deleted_notes' = h.deleted_notes
           /\ last_migration' = h.last_migration
           /\ body_of' = [id \in DOMAIN h.processed_notes |-> saved_body_of[id]]
    /\ dpc' = "idle"
    /\ session' = [session EXCEPT !.protocol_only = FALSE, !.fresh = torn,
                                  !.committed = {}]
    /\ UNCHANGED <<persisted, torn, saved_body_of, files, bundle, idx, decision,
                   current_ids>>
    /\ UNCHANGED <<syncVars, convVars, cmpVars>>

NextDedup ==
    \/ /\ Len(migrations) < Len(MigrationIds)
       /\ \E b \in (IF session.count = 0 THEN Bundles ELSE NextBundles(bundle)) :
              StartMigration(MigrationIds[Len(migrations) + 1], b)
    \/ ShouldProcessNote
    \/ MarkNoteProcessed(decision.reason = "updated")
    \/ MarkNoteSkipped
    \/ DetectDeletedNotes
    \/ \E ok \in BOOLEAN : FinishMigration(ok)
    \/ CleanOrphanedFiles

\* ------------------------------------------------------- pipeline: notes
\* Notes as ENEXParser.parse_file returns them (enex_parser.Note); tags,
\* updated and attachments are empty in every note explored.
NoteTitles == {<<"T">>, <<"U">>}
NoteDates == {"d1", "d2"}
NoteBodies == {<<"a">>, <<"b">>}
Notes == [title : NoteTitles, created : NoteDates, content : NoteBodies]
NoteLists == SeqsUpTo(Notes, MaxNotes) \ {<<>>}

\* The bodies a note of this identity can carry after an edit.
EditsOf(note) == {n.content : n \in {m \in Notes : m.title = note.title
                                                 /\ m.created = note.created}}

\* The bundle a later run reads: a note removed, a note added, or the body
\* of one note edited.
NextNoteLists(b) ==
    {RemoveAt(b, i) : i \in 1..Len(b)}
      \cup (IF Len(b) < MaxNotes THEN {Append(b, n) : n \in Notes} ELSE {})
      \cup UNION {{[b EXCEPT ![i].content = c] : c \in EditsOf(b[i]) \ {b[i].content}} :
                      i \in 1..Len(b)}

\* ---------------------------------------------------- SyncState: parts
\* SyncState._generate_note_id: the md5 digest of "<title>_<created>".
generate_note_id(note) == <<note.title, note.created>>

\* SyncState._calculate_note_hash: the sha256 digest of the JSON of title,
\* content, tags, created, updated and the number of attachments.
calculate_note_hash(note) == <<note.title, note.content, note.created>>

\* SyncState._load_state, no state file present.
EmptySyncState ==
    [note_hashes |-> EmptyMap, file_mappings |-> EmptyMap,
     processed_files |-> EmptyMap]

\* The paths of the bundle files, in ascending order of their names.
EnexPaths == <<"a.enex", "b.enex">>
EnexPath == EnexPaths[1]

\* A bundle file: its path, the notes it holds, its modification time and
\* whether its XML is malformed (its notes then are those a parser could read
\* before the defect).
BundleFile(path, notes, mtime, malformed) ==
    [path |-> path, notes |-> notes, mtime |-> mtime, malformed |-> malformed]

\* SyncState._calculate_file_hash: the digest of the bytes of the file.
calculate_file_hash(file) == <<file.notes, file.malformed>>

\* Variant of parse_file that returns the notes read before the defect.
parse_file_Lenient(file) == [raised |-> FALSE, notes |-> file.notes]

\* ENEXParser.parse_file: the notes of the bundle, or an exception when the
\* XML cannot be parsed.
parse_file(file) ==
    IF file.malformed THEN [raised |-> TRUE, notes |-> <<>>]
    ELSE [raised |-> FALSE, notes |-> file.notes]

\* sorted(enex_files), on the paths explored.
RECURSIVE SortedFrom(_, _)
SortedFrom(enex_files, k) ==
    IF k > Len(EnexPaths) THEN <<>>
    ELSE SelectSeq(enex_files, LAMBDA f : f.path = EnexPaths[k])
             \o SortedFrom(enex_files, k + 1)

\* EvernoteToObsidianConverter._get_input_files: the configured files (all
\* exist and end in .enex), sorted.
get_input_files(enex_files) == SortedFrom(enex_files, 1)

\* SyncState.is_note_changed
is_note_changed(note, state) ==
    LET note_id == generate_note_id(note)
    IN  ~(note_id \in DOMAIN state.note_hashes
          /\ state.note_hashes[note_id] = calculate_note_hash(note))

\* SyncManager.filter_notes_for_sync (incremental is always on: the manager
\* reads 'sync.incremental' from a plain dict and gets the default).
RECURSIVE filter_notes_for_sync(_, _)
filter_notes_for_sync(notes, state) ==
    IF notes = <<>> THEN <<>>
    ELSE (IF is_note_changed(Head(notes), state) THEN <<Head(notes)>> ELSE <<>>)
             \o filter_notes_for_sync(Tail(notes), state)

\* SyncState.update_note_hash
update_note_hash(state, note, output_path) ==
    [state EXCEPT
        !.note_hashes = MapPut(@, generate_note_id(note), calculate_note_hash(note)),
        !.file_mappings = MapPut(@, generate_note_id(note), output_path)]

\* SyncState.is_file_processed
is_file_processed(state, file) ==
    /\ file.path \in DOMAIN state.processed_files
    /\ state.processed_files[file.path].hash = calculate_file_hash(file)
    /\ state.processed_files[file.path].modified_time = file.mtime

\* SyncState.mark_file_processed
mark_file_processed(state, file) ==
    [state EXCEPT !.processed_files =
        MapPut(@, file.path, [hash |-> calculate_file_hash(file),
                              modified_time |-> file.mtime])]

\* SyncState.cleanup_deleted_files(vault_path): SyncManager reads
\* 'output.obsidian_vault' from a plain dict, so vault_path is the working
\* directory; a mapped path is found only when that is the vault.
cleanup_deleted_files(state, disk, in_vault) ==
    LET kept == {id \in DOMAIN state.file_mappings :
                    in_vault /\ state.file_mappings[id] \in DOMAIN disk}
    IN  [state EXCEPT
            !.file_mappings = [id \in kept |-> @[id]],
            !.note_hashes = [id \in DOMAIN @ \ (DOMAIN state.file_mappings \ kept)
                                |-> @[id]]]

\* ------------------------------------------------- FileOrganizer: parts
MaxFilenameLength == 100
ExtensionLength == 3

InvalidChars == {"<", ">", ":", "\"", "/", "\\", "|", "?", "*"}

RECURSIVE ReplaceInvalid(_)
ReplaceInvalid(s) ==
    IF s = <<>> THEN <<>>
    ELSE <<IF Head(s) \in InvalidChars THEN "_" ELSE Head(s)>>
             \o ReplaceInvalid(Tail(s))

RECURSIVE StripDotsSpaces(_)
StripDotsSpaces(s) ==
    IF s = <<>> THEN s
    ELSE IF Head(s) \in {".", " "} THEN StripDotsSpaces(Tail(s))
    ELSE IF s[Len(s)] \in {".", " "}
         THEN StripDotsSpaces(SubSeq(s, 1, Len(s) - 1))
    ELSE s

RECURSIVE CollapseReplacement(_)
CollapseReplacement(s) ==
    IF Len(s) < 2 THEN s
    ELSE IF s[1] = "_" /\ s[2] = "_" THEN CollapseReplacement(Tail(s))
    ELSE <<Head(s)>> \o CollapseReplacement(Tail(s))

\* FileOrganizer._sanitize_filename
sanitize_filename(filename) ==
    IF filename = <<>> THEN <<"u", "n", "t", "i", "t", "l", "e", "d">>
    ELSE LET cleaned == CollapseReplacement(StripDotsSpaces(ReplaceInvalid(filename)))
         IN  IF cleaned = <<>> THEN <<"u", "n", "t", "i", "t", "l", "e", "d">>
             ELSE cleaned

\* The base name _generate_unique_filename starts from.
BaseName(note) ==
    LET base == sanitize_filename(note.title)
        room == MaxFilenameLength - ExtensionLength
    IN  IF Len(base) > room THEN Strip(SubSeq(base, 1, room)) ELSE base

\* A document of the notebook folder: <base>.md (n = 0), <base>_<n>.md, or
\* the backup <stem>_<timestamp>_backup.md made of it in run `backup`.
DocPath(base, n) == [base |-> base, n |-> n, backup |-> 0]
BackupPath(path, stamp) == [path EXCEPT !.backup = stamp]

\* FileOrganizer._get_unique_filename: the smallest counter >= 1 whose file
\* does not exist.
get_unique_filename(base, disk) ==
    LET free == {k \in 1..(Cardinality(DOMAIN disk) + 1) :
                    DocPath(base, k) \notin DOMAIN disk}
    IN  DocPath(base, CHOOSE k \in free : \A j \in free : k <= j)

\* FileOrganizer._generate_unique_filename, 'rename' policy (the organizer
\* reads 'file_organization.handle_duplicates' from a plain dict and gets
\* the default).
generate_unique_filename(note, disk) ==
    IF DocPath(BaseName(note), 0) \in DOMAIN disk
    THEN get_unique_filename(BaseName(note), disk)
    ELSE DocPath(BaseName(note), 0)

\* FileOrganizer.organize_notes: every path is chosen against the files on
\* disk when it is called, before any note of the batch is saved.
organize_notes(notes, disk) ==
    [i \in 1..Len(notes) |->
        [note |-> notes[i], path |-> generate_unique_filename(notes[i], disk)]]

\* The file save_note leaves at a path: the rendering of a note, complete or
\* cut short.
Document(note, complete) ==
    [id |-> generate_note_id(note), content |-> note.content,
     complete |-> complete]

\* FileOrganizer._backup_file, called by save_note when the path exists.
backup_file(disk, path, stamp) ==
    IF path \in DOMAIN disk
    THEN MapPut(disk, BackupPath(path, stamp), disk[path])
    ELSE disk

\* ----------------------------------------------------- pipeline: actions
InitSync ==
    /\ sync_state = EmptySyncState
    /\ sync_persisted = EmptySyncState
    /\ vault = EmptyMap
    /\ inputs = <<>>
    /\ todo = <<>>
    /\ enex = BundleFile(EnexPath, <<>>, 0, FALSE)
    /\ rpc = "idle"
    /\ organized = <<>>
    /\ ridx = 1
    /\ run = [count |-> 0, total_files |-> 0, processed_files |-> 0,
              total_notes |-> 0, converted |-> 0, skipped |-> 0,
              converted_count |-> 0, planned |-> 0, attempted |-> <<>>,
              finished |-> FALSE, failed |-> 0, failures |-> 0,
              plain |-> TRUE, cut |-> {}, resumed |-> FALSE]

\* No two notes of the list carry the same title.
DistinctTitles(notes) ==
    \A i, j \in 1..Len(notes) : notes[i].title = notes[j].title => i = j

\* The notes of all the bundle files of a list.
RECURSIVE AllNotes(_)
AllNotes(enex_files) ==
    IF enex_files = <<>> THEN <<>> ELSE Head(enex_files).notes \o AllNotes(Tail(enex_files))

\* The bundles are exported (again), and the converter is constructed and
\* run on the configured files: SyncState loads the persisted state, and
\* run() calls _get_input_files.
BeginRun(enex_files) ==
    /\ rpc = "idle"
    /\ run.count < MaxRuns
    /\ enex_files # <<>>
    /\ inputs' = enex_files
    /\ todo' = get_input_files(enex_files)
    /\ sync_state' = sync_persisted
    /\ run' = [run EXCEPT !.count = @ + 1, !.total_files = Len(todo'),
                          !.processed_files = 0, !.total_notes = 0,
                          !.converted = 0, !.skipped = 0,
                          !.converted_count = 0, !.planned = 0,
                          !.attempted = <<>>, !.finished = FALSE,
                          !.failed = 0,
                          !.plain = @ /\ DistinctTitles(AllNotes(enex_files)),
                          !.resumed = run.cut # {} /\ enex_files = inputs,
                          !.cut = IF enex_files = inputs THEN @ ELSE {}]
    /\ organized' = <<>>
    /\ ridx' = 1
    /\ rpc' = "start"
    /\ UNCHANGED <<cwd_is_vault, sync_persisted, vault, enex>>
    /\ UNCHANGED <<dedupVars, convVars, cmpVars>>

\* One turn of the loop of _run_conversion up to the per-note loop:
\* should_process_file, parse_file, filter_notes_for_sync and, in
\* _convert_notes, organize_notes.  An exception of parse_file is caught by
\* the handler of the loop body, which logs it.
ReadBundle ==
    /\ rpc \in {"start", "next"}
    /\ todo # <<>>
    /\ enex' = Head(todo)
    /\ todo' = Tail(todo)
    /\ IF is_file_processed(sync_state, enex')
       THEN /\ rpc' = "next"
            /\ run' = [run EXCEPT !.attempted = Append(@, enex'.path),
                                  !.converted_count = 0, !.planned = 0]
            /\ UNCHANGED <<sync_state, organized>>
       ELSE IF parse_file(enex').raised
       THEN /\ rpc' = "next"
            /\ run' = [run EXCEPT !.attempted = Append(@, enex'.path),
                                  !.converted_count = 0, !.planned = 0]
            /\ UNCHANGED <<sync_state, organized>>
       ELSE LET notes == parse_file(enex').notes
                notes_to_sync == filter_notes_for_sync(notes, sync_state)
            IN  /\ run' = [run EXCEPT
                       !.attempted = Append(@, enex'.path),
                       !.total_notes = @ + Len(notes),
                       !.skipped = @ + (Len(notes) - Len(notes_to_sync)),
                       !.converted_count = 0,
                       !.planned = Len(notes_to_sync)]
                /\ IF notes_to_sync = <<>>
                   THEN /\ sync_state' = mark_file_processed(sync_state, enex')
                        /\ rpc' = "next"
                        /\ UNCHANGED organized
                   ELSE /\ organized' = organize_notes(notes_to_sync, vault)
                        /\ rpc' = "convert"
                        /\ UNCHANGED sync_state
    /\ ridx' = 1
    /\ UNCHANGED <<cwd_is_vault, sync_persisted, vault, inputs>>
    /\ UNCHANGED <<dedupVars, convVars, cmpVars>>

\* convert_note and save_note return: the existing file is backed up and the
\* document written.
SaveNote ==
    /\ rpc = "convert"
    /\ ridx <= Len(organized)
    /\ LET e == organized[ridx]
       IN  vault' = MapPut(backup_file(vault, e.path, run.count), e.path,
                           Document(e.note, TRUE))
    /\ rpc' = "saved"
    /\ UNCHANGED <<cwd_is_vault, sync_state, sync_persisted, inputs, todo, enex,
                   organized, ridx, run>>
    /\ UNCHANGED <<dedupVars, convVars, cmpVars>>

\* save_note raises: the write fails before the file is opened, or after it
\* was truncated.  _convert_notes logs the error and goes on.
SaveNoteFails(opened) ==
    /\ rpc = "convert"
    /\ ridx <= Len(organized)
    /\ run.failures < MaxFailures
    /\ LET e == organized[ridx]
           backed == backup_file(vault, e.path, run.count)
       IN  vault' = IF opened THEN MapPut(backed, e.path, Document(e.note, FALSE))
                    ELSE backed
    /\ run' = [run EXCEPT !.failures = @ + 1, !.failed = @ + 1]
    /\ ridx' = ridx + 1
    /\ UNCHANGED <<cwd_is_vault, sync_state, sync_persisted, inputs, todo, enex,
                   organized, rpc>>
    /\ UNCHANGED <<dedupVars, convVars, cmpVars>>

\* SyncManager.mark_note_processed, after save_note (and save_attachments)
\* returned; converted_count += 1.
SyncMarkNoteProcessed ==
    /\ rpc = "saved"
    /\ sync_state' = update_note_hash(sync_state, organized[ridx].note,
                                      organized[ridx].path)
    /\ run' = [run EXCEPT !.converted_count = @ + 1]
    /\ ridx' = ridx + 1
    /\ rpc' = "convert"
    /\ UNCHANGED <<cwd_is_vault, sync_persisted, vault, inputs, todo, enex,
                   organized>>
    /\ UNCHANGED <<dedupVars, convVars, cmpVars>>

\* The per-note loop is over: _convert_notes returns converted_count, then
\* mark_file_processed and processed_files.append.
EndBundle ==
    /\ rpc = "convert"
    /\ ridx > Len(organized)
    /\ sync_state' = mark_file_processed(sync_state, enex)
    /\ run' = [run EXCEPT !.converted = @ + run.converted_count,
                          !.processed_files = @ + 1]
    /\ rpc' = "next"
    /\ UNCHANGED <<cwd_is_vault, sync_persisted, vault, inputs, todo, enex,
                   organized, ridx>>
    /\ UNCHANGED <<dedupVars, convVars, cmpVars>>

\* The loop over the files is over: SyncManager.finalize_sync
\* (cleanup_deleted_files, save_state), then the statistics are built and
\* printed.
FinalizeSync ==
    /\ rpc \in {"start", "next"}
    /\ todo = <<>>
    /\ sync_state' = cleanup_deleted_files(sync_state, vault, cwd_is_vault)
    /\ sync_persisted' = sync_state'
    /\ run' = [run EXCEPT !.finished = TRUE]
    /\ rpc' = "idle"
    /\ UNCHANGED <<cwd_is_vault, vault, inputs, todo, enex, organized, ridx>>
    /\ UNCHANGED <<dedupVars, convVars, cmpVars>>

\* The notes whose record in memory has not reached the state file.
UncommittedIds(state, on_disk) ==
    {id \in DOMAIN state.note_hashes :
        id \notin DOMAIN on_disk.note_hashes
        \/ on_disk.note_hashes[id] # state.note_hashes[id]}

\* The run is interrupted (KeyboardInterrupt): the process ends, and with it
\* the state it held in memory.  Inside save_note the file may be left
\* truncated.
Interrupt(opened) ==
    /\ rpc \in {"start", "convert", "saved", "next"}
    /\ run.failures < MaxFailures
    /\ opened => (rpc = "convert" /\ ridx <= Len(organized))
    /\ vault' = IF opened
                THEN MapPut(backup_file(vault, organized[ridx].path, run.count),
                            organized[ridx].path,
                            Document(organized[ridx].note, FALSE))
                ELSE vault
    /\ sync_state' = sync_persisted
    /\ run' = [run EXCEPT !.failures = @ + 1,
                          !.cut = UncommittedIds(sync_state, sync_persisted)]
    /\ rpc' = "idle"
    /\ UNCHANGED <<cwd_is_vault, sync_persisted, inputs, todo, enex, organized,
                   ridx>>
    /\ UNCHANGED <<dedupVars, convVars, cmpVars>>

\* The bundle file EnexPath, written at the next modification time.
Exported(notes) ==
    <<BundleFile(EnexPath, notes, IF inputs = <<>> THEN 1 ELSE inputs[1].mtime + 1,
                 FALSE)>>

\* One bundle file, converted again and again: exported with notes added,
\* removed or edited, exported unchanged, or left as it is.
NextPipeline ==
    \/ \E b \in (IF run.count = 0 THEN NoteLists
                 ELSE NextNoteLists(inputs[1].notes)) :
           BeginRun(Exported(b))
    \/ (run.count > 0 /\ BeginRun(Exported(inputs[1].notes)))
    \/ (run.count > 0 /\ BeginRun(inputs))
    \/ ReadBundle
    \/ SaveNote
    \/ \E opened \in BOOLEAN : SaveNoteFails(opened)
    \/ SyncMarkNoteProcessed
    \/ EndBundle
    \/ FinalizeSync
    \/ \E opened \in BOOLEAN : Interrupt(opened)

\* The i-th note of the bundle file at a path: the titles alternate, and the
\* notes of one bundle share their creation time.
BatchNote(path, i) ==
    [title |-> IF i % 2 = 1 THEN <<"T">> ELSE <<"U">>,
     created |-> IF path = EnexPaths[1] THEN "d1" ELSE "d2",
     content |-> <<"a">>]

\* The bundle files that can be found at a path: up to MaxNotes notes,
\* well-formed or malformed.
BundleFilesAt(path) ==
    {BundleFile(path, [i \in 1..n |-> BatchNote(path, i)], 1, m) :
         n \in 0..MaxNotes, m \in BOOLEAN}

\* The values of input.enex_files: one bundle file, or both in either order.
InputLists ==
    {<<f>> : f \in BundleFilesAt(EnexPaths[1]) \cup BundleFilesAt(EnexPaths[2])}
      \cup {<<f, g>> : f \in BundleFilesAt(EnexPaths[1]),
                       g \in BundleFilesAt(EnexPaths[2])}
      \cup {<<g, f>> : f \in BundleFilesAt(EnexPaths[1]),
                       g \in BundleFilesAt(EnexPaths[2])}

\* The same files written again with the same content.
Touched(enex_files) ==
    [i \in 1..Len(enex_files) |-> [enex_files[i] EXCEPT !.mtime = @ + 1]]

\* A list of bundle files, converted and then converted again, as they are
\* or after they were written again.
NextBatch ==
    \/ (run.count = 0 /\ \E l \in InputLists : BeginRun(l))
    \/ (run.count > 0 /\ BeginRun(inputs))
    \/ (run.count > 0 /\ BeginRun(Touched(inputs)))
    \/ ReadBundle
    \/ SaveNote
    \/ \E opened \in BOOLEAN : SaveNoteFails(opened)
    \/ SyncMarkNoteProcessed
    \/ EndBundle
    \/ FinalizeSync
    \/ \E opened \in BOOLEAN : Interrupt(opened)

\* ------------------------------------------------- parser and converter
\* Texts are sequences of characters; "^A" stands for the control character
\* U+0001, and a word such as "Untitled Note" for the run of its characters.
ControlChars == {"^A"}

\* An element of the note: absent, or present with its text (<<>> when
\* ElementTree gives None or '').
NoElement == [present |-> FALSE, text |-> <<>>]
Element(text) == [present |-> TRUE, text |-> text]

\* ENEXParser._get_element_text
get_element_text(elem, default) ==
    IF elem.present /\ elem.text # <<>> THEN elem.text ELSE default

\* ENEXParser._clean_text: strip, then the control characters are removed.
clean_text(text) ==
    IF text = <<>> THEN <<>>
    ELSE SelectSeq(Strip(text), LAMBDA c : c \notin ControlChars)

UntitledNote == <<"Untitled Note">>
NoDate == <<>>

\* ENEXParser._parse_datetime and datetime.strftime with the default
\* date_format, on the one timestamp explored.
parse_datetime(date_str) ==
    IF date_str = <<"20240101T000000Z">> THEN <<"2024", "01", "01">> ELSE NoDate
strftime(date) == <<date[1], "-", date[2], "-", date[3], " 00:00:00">>

\* The tag elements with a text, cleaned.
RECURSIVE parse_tags(_)
parse_tags(tag_texts) ==
    IF tag_texts = <<>> THEN <<>>
    ELSE (IF Head(tag_texts) # <<>> THEN <<clean_text(Head(tag_texts))>> ELSE <<>>)
             \o parse_tags(Tail(tag_texts))

NoHash == "None"

\* ENEXParser._extract_resources: resources without data are left out; 'hash'
\* is read from the data element only when the element is truthy, which an
\* element without children never is.
RECURSIVE extract_resources(_)
extract_resources(resources) ==
    IF resources = <<>> THEN <<>>
    ELSE (IF Head(resources).has_data
          THEN <<[filename |-> Head(resources).filename, hash |-> NoHash]>>
          ELSE <<>>) \o extract_resources(Tail(resources))

\* ENEXParser._parse_note, and parse_file setting the notebook name.
parse_note(elem) ==
    [title |-> clean_text(get_element_text(elem.title, UntitledNote)),
     content |-> get_element_text(elem.content, <<>>),
     created |-> parse_datetime(get_element_text(elem.created, <<>>)),
     updated |-> parse_datetime(get_element_text(elem.updated, <<>>)),
     tags |-> parse_tags(elem.tags),
     notebook |-> <<"Default Notebook">>,
     source_url |-> get_element_text(elem.source_url, <<>>),
     author |-> get_element_text(elem.author, <<>>),
     source |-> <<"Evernote">>,
     attachments |-> extract_resources(elem.resources)]

\* The keys of the metadata section that _generate_frontmatter reads.
ToggleKeys == {"include_created_date", "include_modified_date", "include_tags",
               "include_notebook", "include_source"}

\* 'metadata.' + key
Dotted(key) ==
    CASE key = "include_created_date" -> "metadata.include_created_date"
      [] key = "include_modified_date" -> "metadata.include_modified_date"
      [] key = "include_tags" -> "metadata.include_tags"
      [] key = "include_notebook" -> "metadata.include_notebook"
      [] key = "include_source" -> "metadata.include_source"

\* Config.get_all(): the nested mapping, one dictionary per section.
NestedConfig(enabled) ==
    [section \in {"metadata"} |-> [key \in ToggleKeys |-> key \in enabled]]

\* A dictionary whose keys are the dotted names.
FlatConfig(enabled) ==
    LET key_of(d) == CHOOSE key \in ToggleKeys : Dotted(key) = d
    IN  [d \in {Dotted(key) : key \in ToggleKeys} |-> key_of(d) \in enabled]

\* dict.get(key) taken as a truth value: a missing key gives None.
config_get(config, key) == IF key \in DOMAIN config THEN config[key] ELSE FALSE

\* MarkdownConverter._escape_yaml_string
RECURSIVE escape_yaml_string(_)
escape_yaml_string(text) ==
    IF text = <<>> THEN <<>>
    ELSE (IF Head(text) = "\"" THEN <<"\\", "\"">> ELSE <<Head(text)>>)
             \o escape_yaml_string(Tail(text))

Quoted(text) == <<"\"">> \o text \o <<"\"">>

\* ', '.join([f'"{tag}"' for tag in note.tags])
RECURSIVE JoinTags(_)
JoinTags(tags) ==
    IF tags = <<>> THEN <<>>
    ELSE IF Len(tags) = 1 THEN Quoted(Head(tags))
    ELSE Quoted(Head(tags)) \o <<", ">> \o JoinTags(Tail(tags))

\* MarkdownConverter._generate_frontmatter: the lines of the header, each
\* with the name of its field.
generate_frontmatter(config, n) ==
    IF ~\E key \in ToggleKeys : config_get(config, Dotted(key))
    THEN <<>>
    ELSE
      (IF n.title # <<>>
       THEN <<[field |-> "title", text |-> Quoted(escape_yaml_string(n.title))]>>
       ELSE <<>>)
      \o (IF config_get(config, "metadata.include_created_date") /\ n.created # NoDate
          THEN <<[field |-> "created", text |-> Quoted(strftime(n.created))]>>
          ELSE <<>>)
      \o (IF config_get(config, "metadata.include_modified_date") /\ n.updated # NoDate
          THEN <<[field |-> "updated", text |-> Quoted(strftime(n.updated))]>>
          ELSE <<>>)
      \o (IF config_get(config, "metadata.include_tags") /\ n.tags # <<>>
          THEN <<[field |-> "tags", text |-> <<"[">> \o JoinTags(n.tags) \o <<"]">>]>>
          ELSE <<>>)
      \o (IF config_get(config, "metadata.include_notebook") /\ n.notebook # <<>>
          THEN <<[field |-> "notebook",
                  text |-> Quoted(escape_yaml_string(n.notebook))]>>
          ELSE <<>>)
      \o (IF config_get(config, "metadata.include_source")
          THEN <<[field |-> "source", text |-> Quoted(n.source)]>>
          ELSE <<>>)
      \o (IF n.author # <<>>
          THEN <<[field |-> "author", text |-> Quoted(escape_yaml_string(n.author))]>>
          ELSE <<>>)
      \o (IF n.source_url # <<>>
          THEN <<[field |-> "source_url", text |-> Quoted(n.source_url)]>>
          ELSE <<>>)
      \o (IF n.attachments # <<>>
          THEN <<[field |-> "attachments", text |-> <<ToString(Len(n.attachments))>>]>>
          ELSE <<>>)

\* The items of a note body: a character, or an <en-media> element with its
\* hash attribute (NoHash when it has none).
Char(c) == [tag |-> "text", arg |-> c]
EnMedia(hash) == [tag |-> "en-media", arg |-> hash]

\* MarkdownConverter._remove_evernote_tags: every <en-media ...> becomes the
\* text [Media].
RECURSIVE remove_evernote_tags(_)
remove_evernote_tags(content) ==
    IF content = <<>> THEN <<>>
    ELSE (IF Head(content).tag = "en-media"
          THEN <<Char("["), Char("Media"), Char("]")>>
          ELSE <<Head(content)>>) \o remove_evernote_tags(Tail(content))

\* html2text with escape_snob: the text of the items, with the Markdown
\* special characters escaped.
RECURSIVE h2t_handle(_)
h2t_handle(content) ==
    IF content = <<>> THEN <<>>
    ELSE (IF Head(content).arg \in {"[", "]", "*", "_"}
          THEN <<"\\", Head(content).arg>>
          ELSE <<Head(content).arg>>) \o h2t_handle(Tail(content))

\* MarkdownConverter._convert_content and _post_process_content.
convert_content(content) ==
    IF content = <<>> THEN <<>> ELSE Strip(h2t_handle(remove_evernote_tags(content)))

\* The frontmatter with its delimiters: f"---\n{frontmatter}\n---\n\n".
HeaderLine(line) == <<line.field, ": ">> \o line.text
HeaderOf(frontmatter) ==
    <<<<"---">>>> \o [i \in 1..Len(frontmatter) |-> HeaderLine(frontmatter[i])]
        \o <<<<"---">>, <<>>>>

\* MarkdownConverter.convert_note: the lines of the document.
convert_note(config, n) ==
    LET frontmatter == generate_frontmatter(config, n)
        content == convert_content(n.content)
    IN  IF frontmatter # <<>> THEN HeaderOf(frontmatter) \o <<content>>
        ELSE <<content>>

\* The note elements explored.
TitleElements ==
    {NoElement, Element(<<>>), Element(<<" ">>), Element(<<"^A">>),
     Element(<<" ", "T", " ">>), Element(<<"T", "\"">>)}
DateElements == {NoElement, Element(<<"20240101T000000Z">>)}
TagLists == {<<>>, <<<<"x">>, <<"y">>>>, <<<<>>, <<"x">>>>}
AuthorElements == {NoElement, Element(<<"A">>)}
ResourceLists ==
    {<<>>, <<[has_data |-> TRUE, filename |-> <<"img.png">>, md5 |-> "h1"]>>}
ContentElements ==
    {NoElement, Element(<<Char("a")>>),
     Element(<<Char("a"), EnMedia("h1")>>),
     Element(<<EnMedia("h2"), Char("a")>>),
     Element(<<EnMedia(NoHash)>>)}

NoteElements ==
    [title : TitleElements, content : ContentElements, created : DateElements,
     updated : {NoElement}, tags : TagLists, author : AuthorElements,
     source_url : {NoElement}, resources : ResourceLists]

\* The configurations handed to MarkdownConverter.
Configs ==
    {NestedConfig(enabled) : enabled \in SUBSET ToggleKeys}
        \cup {FlatConfig(enabled) : enabled \in SUBSET ToggleKeys}

NoNote == [title |-> <<>>]
NoDocument == <<>>

\* No note is parsed or rendered.
InitConvert ==
    /\ conv_config = NestedConfig({})
    /\ note_elem = [title |-> NoElement]
    /\ parsed = NoNote
    /\ markdown = NoDocument
    /\ cpc = "idle"

\* A converter is constructed and a note element is read from a bundle file.
InitNoteElement ==
    /\ conv_config \in Configs
    /\ note_elem \in NoteElements
    /\ parsed = NoNote
    /\ markdown = NoDocument
    /\ cpc = "element"

\* ENEXParser._parse_note
ParseNote ==
    /\ cpc = "element"
    /\ parsed' = parse_note(note_elem)
    /\ cpc' = "parsed"
    /\ UNCHANGED <<conv_config, note_elem, markdown>>
    /\ UNCHANGED <<dedupVars, syncVars, cmpVars>>

\* MarkdownConverter.convert_note
ConvertNote ==
    /\ cpc = "parsed"
    /\ markdown' = convert_note(conv_config, parsed)
    /\ cpc' = "rendered"
    /\ UNCHANGED <<conv_config, note_elem, parsed>>
    /\ UNCHANGED <<dedupVars, syncVars, cmpVars>>

NextConvert == ParseNote \/ ConvertNote

\* ------------------------------------------- change detection: comparisons
\* The bodies compared: every text of up to MaxBody characters out of a
\* letter, a blank and a line break.
MaxBody == 3
BodyChars == {"a", " ", "\n"}
Bodies == SeqsUpTo(BodyChars, MaxBody)

\* DeduplicationManager.should_process_file(file_path, content) on the
\* files of disk (path -> text); an empty content is falsy, like the
\* default None.  The existing file is readable.
should_process_file(file_path, content, disk) ==
    IF file_path \in DOMAIN disk
    THEN IF content # <<>> /\ disk[file_path] = content
         THEN [process |-> FALSE, reason |-> "same content"]
         ELSE IF content # <<>>
              THEN [process |-> TRUE, reason |-> "content differs"]
              ELSE [process |-> FALSE, reason |-> "exists"]
    ELSE [process |-> TRUE, reason |-> "new file"]

NoVerdict == "none"
Verdict(changed) == IF changed THEN "changed" ELSE "unchanged"

NotCompared ==
    compare = [old |-> <<>>, new |-> <<>>, note |-> NoVerdict,
               sync |-> NoVerdict, file |-> NoVerdict]

\* A body that was committed and the body presented next.
InitBodies ==
    compare \in [old : Bodies, new : Bodies, note : {NoVerdict},
                 sync : {NoVerdict}, file : {NoVerdict}]

\* should_process_note on a note whose id has a record made from the old
\* body by mark_note_processed.
CompareNote ==
    /\ compare.note = NoVerdict
    /\ LET was == [guid |-> <<"A">>, title |-> "T1", content |-> compare.old]
           now == [was EXCEPT !.content = compare.new]
           processed == MapPut(EmptyMap, ProcessedIdOf(was),
                               NoteInfo(was, OutputPath(was), FALSE, "m1"))
       IN  compare' = [compare EXCEPT
                          !.note = Verdict(Classify(now, processed).accept)]
    /\ UNCHANGED <<dedupVars, syncVars, convVars>>

\* SyncState.is_note_changed on a note whose hash update_note_hash stored
\* with the old body.
CompareSync ==
    /\ compare.sync = NoVerdict
    /\ LET was == [title |-> <<"T">>, created |-> "d1", content |-> compare.old]
           now == [was EXCEPT !.content = compare.new]
           state == update_note_hash(EmptySyncState, was, <<"T">>)
       IN  compare' = [compare EXCEPT
                          !.sync = Verdict(is_note_changed(now, state))]
    /\ UNCHANGED <<dedupVars, syncVars, convVars>>

\* should_process_file on a file that holds the old body.
CompareFile ==
    /\ compare.file = NoVerdict
    /\ LET disk == MapPut(EmptyMap, <<"T">>, compare.old)
       IN  compare' = [compare EXCEPT
               !.file = Verdict(should_process_file(<<"T">>, compare.new,
                                                    disk).process)]
    /\ UNCHANGED <<dedupVars, syncVars, convVars>>

NextCompare == CompareNote \/ CompareSync \/ CompareFile

\* ---------------------------------------------------------- specifications
\* The deduplication protocol, driven on its own as the tests drive it.
Init ==
    InitDedup /\ InitSync /\ InitConvert /\ NotCompared /\ cwd_is_vault = TRUE

SpecDedup == Init /\ [][NextDedup]_vars

\* The notes of the sessions whose migration ids may repeat: a note, the
\* same note edited, and a copy of it under another external id.
SessionNotes ==
    {[guid |-> <<"A">>, title |-> "T1", content |-> <<"a">>],
     [guid |-> <<"A">>, title |-> "T1", content |-> <<"b">>],
     [guid |-> <<"B">>, title |-> "T1", content |-> <<"a">>]}

\* The deduplication protocol driven by callers that choose the migration
\* id freely.
NextSessions ==
    \/ /\ Len(migrations) < Cardinality(SessionIds)
       /\ \E m \in SessionIds :
              \E b \in SeqsUpTo(SessionNotes, MaxNotes) \ {<<>>} :
                  StartMigration(m, b)
    \/ ShouldProcessNote
    \/ MarkNoteProcessed(decision.reason = "updated")
    \/ MarkNoteSkipped
    \/ DetectDeletedNotes
    \/ \E ok \in BOOLEAN : FinishMigration(ok)

SpecSessions == Init /\ [][NextSessions]_vars

\* The deduplication protocol with sessions that are interrupted while the
\* history is flushed, and the processes that come after them.
NextStore ==
    \/ NextDedup
    \/ \E opened \in BOOLEAN : FinishMigrationInterrupted(opened)
    \/ LoadHistory

SpecStore == Init /\ [][NextStore]_vars

\* The notes of the sessions before and after a process that was
\* interrupted: a note, the same note edited, a note without external id.
ReloadNotes ==
    {[guid |-> <<"A">>, title |-> "T1", content |-> <<"a">>],
     [guid |-> <<"A">>, title |-> "T1", content |-> <<"b">>],
     [guid |-> NoId, title |-> "T1", content |-> <<"a">>]}

\* Sessions, the interruption of one of them while it saves the history,
\* and the manager a later process constructs over the file left behind.
NextReload ==
    \/ /\ Len(migrations) < Len(MigrationIds)
       /\ \E b \in SeqsUpTo(ReloadNotes, MaxNotes) \ {<<>>} :
              StartMigration(MigrationIds[Len(migrations) + 1], b)
    \/ ShouldProcessNote
    \/ MarkNoteProcessed(decision.reason = "updated")
    \/ MarkNoteSkipped
    \/ DetectDeletedNotes
    \/ \E ok \in BOOLEAN : FinishMigration(ok)
    \/ \E opened \in BOOLEAN : FinishMigrationInterrupted(opened)
    \/ LoadHistory

SpecReload == Init /\ [][NextReload]_vars

\* The conversion pipeline, started from the vault directory or from
\* another one.
InitPipeline ==
    InitDedup /\ InitSync /\ InitConvert /\ NotCompared /\ cwd_is_vault \in BOOLEAN

SpecPipeline == InitPipeline /\ [][NextPipeline]_vars

SpecBatch == InitPipeline /\ [][NextBatch]_vars

\* One note element, parsed and rendered.
InitConverter ==
    InitDedup /\ InitSync /\ InitNoteElement /\ NotCompared /\ cwd_is_vault = TRUE

SpecConvert == InitConverter /\ [][NextConvert]_vars

\* The three comparisons, each applied to a pair of bodies.
InitCompare ==
    InitDedup /\ InitSync /\ InitConvert /\ InitBodies /\ cwd_is_vault = TRUE

SpecCompare == InitCompare /\ [][NextCompare]_vars

\* -------------------------------------------------- claims on the history
LastSession == migrations[Len(migrations)]

\* The notes the per-note protocol has been run on in the current session.
Presented == {bundle[i] : i \in 1..(idx - 1)}

\* C2: when a session replays the bundle set of the previous session
\* unchanged (the previous session having run the per-note protocol and
\* finish_migration only), it accepts no note: no file is written and its
\* counters end as new_notes = 0, updated_notes = 0, skipped_duplicates = N.
C2_ReplayAcceptsNothing ==
    (dpc = "idle" /\ session.replay) =>
        /\ session.written = 0
        /\ LastSession.stats.new_notes = 0
        /\ LastSession.stats.updated_notes = 0
        /\ LastSession.stats.skipped_duplicates = Len(bundle)

\* A note with an external id that has a live record is presented.
LiveGuidPresented ==
    /\ ShouldProcessNote
    /\ bundle[idx].guid # NoId
    /\ bundle[idx].guid \in DOMAIN processed_notes

\* mark_note_processed of a note accepted as an update leaves one record for
\* it, under the same note_id, carrying the new content_hash.
UpdateKeepsOneRecord ==
    (MarkNoteProcessed(TRUE) /\ decision.reason = "updated") =>
        LET g == bundle[idx].guid
        IN  /\ DOMAIN processed_notes' = DOMAIN processed_notes
            /\ Cardinality({id \in DOMAIN processed_notes' :
                               processed_notes'[id].note_id = g}) = 1
            /\ processed_notes'[g].note_id = g
            /\ processed_notes'[g].content_hash =
                   calculate_content_hash(bundle[idx].content)

\* C4 as claimed: a note with an external id and a live record, presented
\* with a body that differs from the body committed, is accepted as an
\* update, and mark_note_processed leaves one record for it under the same
\* note_id with the new content_hash.
C4_AnyBodyEditIsUpdate ==
    [][/\ (LiveGuidPresented /\ bundle[idx].content # body_of[bundle[idx].guid])
            => decision' = [accept |-> TRUE, reason |-> "updated"]
       /\ UpdateKeepsOneRecord]_vars

\* C4 amended: the same, for a body whose normalized form (strip, right-trim
\* of every line) differs from that of the body committed.
C4_NormalizedBodyEditIsUpdate ==
    [][/\ (/\ LiveGuidPresented
           /\ calculate_content_hash(bundle[idx].content)
                  # processed_notes[bundle[idx].guid].content_hash)
            => decision' = [accept |-> TRUE, reason |-> "updated"]
       /\ UpdateKeepsOneRecord]_vars

\* An update of a note with an external id has been committed.
C4_Witness ==
    /\ dpc = "present"
    /\ idx > 1
    /\ decision.reason = "updated"
    /\ bundle[idx - 1].guid \in DOMAIN processed_notes
    /\ processed_notes[bundle[idx - 1].guid].is_update
    /\ processed_notes[bundle[idx - 1].guid].content_hash
           = calculate_content_hash(bundle[idx - 1].content)

\* A note with an external id is presented while a record committed for
\* another external id carries the same content fingerprint.
SameContentOtherGuid ==
    /\ ShouldProcessNote
    /\ bundle[idx].guid # NoId
    /\ \E g \in Guids \ {bundle[idx].guid} :
           /\ g \in DOMAIN processed_notes
           /\ processed_notes[g].content_hash
                  = calculate_content_hash(bundle[idx].content)

\* A note rejected as a duplicate gets no record and no file.
DuplicateLeavesNoRecord ==
    (dpc = "decided" /\ decision.reason = "duplicate") =>
        /\ processed_notes' = processed_notes
        /\ files' = files

MissingGuidIsDeleted ==
    DetectDeletedNotes =>
        \A g \in (Guids \cap DOMAIN processed_notes) \ current_ids :
            /\ g \notin DOMAIN processed_notes'
            /\ g \in DOMAIN deleted_notes'
            /\ processed_notes[g].output_file \notin files'

\* mark_note_processed of a note with an external id leaves it live.
CommittedGuidIsLive ==
    (MarkNoteProcessed(decision.reason = "updated") /\ bundle[idx].guid # NoId) =>
        /\ bundle[idx].guid \in DOMAIN processed_notes'
        /\ bundle[idx].guid \notin DOMAIN deleted_notes'

\* A note whose external id is in deleted_notes is presented.
DeletedGuidPresented ==
    /\ ShouldProcessNote
    /\ bundle[idx].guid # NoId
    /\ bundle[idx].guid \in DOMAIN deleted_notes

C7_NoRecordOutsideCurrentIds ==
    dpc = "reconciled" => DOMAIN processed_notes \subseteq current_ids

\* The records filed for notes that carry no external id.
UntrackedRecords == DOMAIN processed_notes \ Guids

\* The bundle set holds one note without external id that has this title.
OnceInBundle(title) ==
    Cardinality({i \in 1..Len(bundle) :
                    bundle[i].guid = NoId /\ bundle[i].title = title}) = 1

\* C8: a note without external id is recorded and looked up under an id made
\* from its title (and creation time), not from its body: presented again
\* with the body edited it is found (classified as updated) and, once
\* committed, the history holds one record for it.
C8_BodyEditKeepsIdentity ==
    [][/\ (/\ ShouldProcessNote
           /\ bundle[idx].guid = NoId
           /\ OnceInBundle(bundle[idx].title)
           /\ \E id \in UntrackedRecords :
                  /\ processed_notes[id].title = bundle[idx].title
                  /\ processed_notes[id].content_hash
                         # calculate_content_hash(bundle[idx].content))
            => decision' = [accept |-> TRUE, reason |-> "updated"]
       /\ (/\ MarkNoteProcessed(decision.reason = "updated")
           /\ bundle[idx].guid = NoId
           /\ OnceInBundle(bundle[idx].title))
            => Cardinality({id \in DOMAIN processed_notes' \ Guids :
                   processed_notes'[id].title = bundle[idx].title}) = 1]_vars

\* ------------------------------------------------------ pipeline: claims
\* The rendered documents (backups included) that belong to one note
\* identity.
DocumentsOf(id) == {p \in DOMAIN vault : vault[p].id = id}

\* No write has failed and no run was interrupted so far.
AllRunsCompleted == rpc = "idle" /\ run.failures = 0

\* C1: after any sequence of completed runs over a bundle whose notes are
\* added, removed or edited between runs, every note identity has at most
\* one rendered document under the output root.  (Stated for bundles that
\* never held two notes of one title: the batch collision is claim C9's.)
C1_OneDocumentPerNote ==
    (AllRunsCompleted /\ run.plain) =>
        \A id \in {generate_note_id(n) : n \in Notes} :
            Cardinality(DocumentsOf(id)) <= 1

\* The run has committed every note it set out to convert, and the bundle
\* has not been finalized yet.
BundleCommitted ==
    /\ rpc = "next"
    /\ run.planned > 0
    /\ run.converted_count = run.planned

\* C3: once a run has committed every note of a bundle with
\* mark_note_processed, filter_notes_for_sync applied to the same list of
\* notes returns the empty list.
C3_CommittedBundleFiltersEmpty ==
    BundleCommitted => filter_notes_for_sync(enex.notes, sync_state) = <<>>

\* organize_notes has just returned: nothing of the batch is saved yet, so
\* the vault is the disk it looked at.
JustOrganized == rpc = "convert" /\ ridx = 1

\* C9: organize_notes given one batch of two notes with the same title, no
\* file of that name (nor its first rename) existing, assigns them Title.md
\* and Title_1.md.
C9_SameTitleGetsSuffix ==
    (JustOrganized /\ Len(organized) = 2) =>
        LET first == organized[1]
            second == organized[2]
            base == BaseName(first.note)
        IN  (/\ first.note.title = second.note.title
             /\ DocPath(base, 0) \notin DOMAIN vault
             /\ DocPath(base, 1) \notin DOMAIN vault)
                => /\ first.path = DocPath(base, 0)
                   /\ second.path = DocPath(base, 1)

\* The records of `state` each reference a file that exists and whose write
\* completed.
RecordsReferenceCompleteFiles(state) ==
    \A id \in DOMAIN state.file_mappings :
        /\ state.file_mappings[id] \in DOMAIN vault
        /\ vault[state.file_mappings[id]].complete

\* C10: at every point of a run, every note record of the tracker, in memory
\* or persisted, references an output file whose write completed.
C10_RecordsReferenceCompleteFiles ==
    /\ RecordsReferenceCompleteFiles(sync_state)
    /\ RecordsReferenceCompleteFiles(sync_persisted)

\* ----------------------------------------------- history store: claims
\* C11: _save_history replaces the history file atomically: when
\* finish_migration is interrupted during the flush the file holds a
\* complete document (the previous one or the new one), which the next
\* _load_history returns rather than discards.
C11_FlushIsAtomic ==
    dpc = "interrupted" =>
        /\ ~torn
        /\ load_history(persisted, torn) = persisted

\* ------------------------------------------------ list of bundles: claims
\* The loop of _run_conversion takes a malformed bundle file.
MalformedBundleRead == ReadBundle /\ Head(todo).malformed

\* The statistics and the sync state do not show the bundle just read.
BundleLeftNoTrace ==
    /\ sync_state' = sync_state
    /\ vault' = vault
    /\ organized' = organized
    /\ run'.total_notes = run.total_notes
    /\ run'.skipped = run.skipped
    /\ rpc' = "next"
    /\ todo' = Tail(todo)

\* At the end of a run the bundle files marked processed are the well-formed
\* ones.
ProcessedAreWellFormed ==
    run.finished =>
        /\ run.attempted = [i \in 1..Len(inputs) |-> get_input_files(inputs)[i].path]
        /\ \A i \in 1..Len(inputs) :
               is_file_processed(sync_state, inputs[i]) = ~inputs[i].malformed

\* C12: when parse_file fails on a malformed bundle, no note of the bundle is
\* produced, the sync state stays as it was (the bundle is not marked
\* processed) and the bundles after it are still processed.
C12_MalformedBundleSkipped ==
    /\ [][MalformedBundleRead => BundleLeftNoTrace]_vars
    /\ []ProcessedAreWellFormed

\* A run has ended in which the first bundle file read was malformed and held
\* notes, and the notes of the bundle file after it were converted.
C12_Witness ==
    /\ run.finished
    /\ Len(inputs) = 2
    /\ get_input_files(inputs)[1].malformed
    /\ get_input_files(inputs)[1].notes # <<>>
    /\ ~get_input_files(inputs)[2].malformed
    /\ run.attempted = EnexPaths
    /\ run.converted = Len(get_input_files(inputs)[2].notes)
    /\ run.converted > 0
    /\ run.total_notes = run.converted

\* Rendering or writing the note at hand fails in the loop of _convert_notes.
NoteFails == \E opened \in BOOLEAN : SaveNoteFails(opened)

\* C13: when one note fails in the per-note loop, the skipped count of the run
\* grows by one for it, the note is not committed to the tracker, and the loop
\* goes on with the note after it.
C13_FailedNoteCountedAsSkipped ==
    [][NoteFails =>
          /\ run'.skipped = run.skipped + 1
          /\ sync_state' = sync_state
          /\ ridx' = ridx + 1
          /\ rpc' = "convert"]_vars

\* The statistics dictionary built at the end of _run_conversion.
statistics ==
    [total_files |-> run.total_files, processed_files |-> run.processed_files,
     total_notes |-> run.total_notes, converted_notes |-> run.converted,
     skipped_notes |-> run.skipped]

\* The statistics of a run over bundle files without notes: every file is
\* parsed, nothing is filtered, nothing is converted.
NoNotesStatistics(total_files) ==
    [total_files |-> total_files, processed_files |-> 0, total_notes |-> 0,
     converted_notes |-> 0, skipped_notes |-> 0]

WellFormedInputs == \A i \in 1..Len(inputs) : ~inputs[i].malformed

\* The three situations of a finished run.
NoNotesFound ==
    run.finished /\ WellFormedInputs /\ AllNotes(inputs) = <<>>

EveryNoteUnchanged ==
    /\ run.finished /\ WellFormedInputs /\ AllNotes(inputs) # <<>>
    /\ run.count > 1 /\ run.converted = 0 /\ run.failed = 0
    /\ \A i \in 1..Len(AllNotes(inputs)) :
           ~is_note_changed(AllNotes(inputs)[i], sync_state)

EveryNoteFailed ==
    /\ run.finished /\ WellFormedInputs /\ AllNotes(inputs) # <<>>
    /\ run.failed = Len(AllNotes(inputs))

\* C14: the statistics of a finished run tell the three situations apart: no
\* note in the bundles, every note unchanged since the run before, every note
\* failed.
C14_StatisticsTellSituationsApart ==
    /\ NoNotesFound => statistics = NoNotesStatistics(Len(inputs))
    /\ EveryNoteUnchanged => statistics # NoNotesStatistics(Len(inputs))
    /\ EveryNoteFailed =>
           /\ statistics # NoNotesStatistics(Len(inputs))
           /\ statistics.total_notes >
                  statistics.converted_notes + statistics.skipped_notes

\* The notes handed to the per-note loop, in the order of the loop.
OrganizedNotes == [i \in 1..Len(organized) |-> organized[i].note]

\* C15: the notes of a bundle are classified and written in the order of the
\* bundle, and the bundles are processed in the order of input.enex_files.
C15_ConfiguredOrderKept ==
    /\ (rpc = "convert" /\ ridx = 1) =>
           OrganizedNotes = filter_notes_for_sync(enex.notes, sync_state)
    /\ run.finished =>
           run.attempted = [i \in 1..Len(inputs) |-> inputs[i].path]

\* ------------------------------------------- parser and converter: claims
\* The configuration is the nested mapping of Config.get_all().
IsNested(config) == "metadata" \in DOMAIN config

\* The value the configuration gives to a toggle of the metadata section.
Enabled(config, key) ==
    /\ key \in ToggleKeys
    /\ IF IsNested(config) THEN config["metadata"][key] ELSE config[Dotted(key)]

\* The document starts with a delimited header.
HasHeader(document) == Len(document) > 1 /\ document[1] = <<"---">>

\* The fields named by the lines of the header.
HeaderFields(document) == {document[i][1] : i \in 2..(Len(document) - 3)}

\* The line of the tags in inline bracketed form.
TagsLine(tags) == <<"tags", ": ", "[">> \o JoinTags(tags) \o <<"]">>

\* C16: convert_note, constructed with the nested configuration mapping with
\* the tags enabled, emits a leading header with a title line and, for a note
\* with tags, the line tags: ["x", "y"] with the tags in order.
C16_NestedConfigGivesHeader ==
    (/\ cpc = "rendered"
     /\ IsNested(conv_config)
     /\ Enabled(conv_config, "include_tags")
     /\ parsed.title # <<>>) =>
        /\ HasHeader(markdown)
        /\ "title" \in HeaderFields(markdown)
        /\ parsed.tags # <<>> =>
               \E i \in 2..(Len(markdown) - 3) : markdown[i] = TagsLine(parsed.tags)

\* The toggle of a field of the header ("None": the configuration has no
\* toggle for the field).
FieldToggle(field) ==
    CASE field = "created" -> "include_created_date"
      [] field = "updated" -> "include_modified_date"
      [] field = "tags" -> "include_tags"
      [] field = "notebook" -> "include_notebook"
      [] field = "source" -> "include_source"
      [] OTHER -> "None"

\* C17: the header is emitted if and only if at least one metadata field is
\* enabled, a field is in the header only when its own toggle is enabled, and
\* with every toggle disabled the document is the body alone.
C17_HeaderFollowsToggles ==
    cpc = "rendered" =>
        /\ HasHeader(markdown) <=> \E key \in ToggleKeys : Enabled(conv_config, key)
        /\ HasHeader(markdown) =>
               \A field \in HeaderFields(markdown) :
                   Enabled(conv_config, FieldToggle(field))
        /\ (\A key \in ToggleKeys : ~Enabled(conv_config, key)) =>
               markdown = <<convert_content(parsed.content)>>

\* C18: every parsed note has a non-empty title; a title element that is
\* absent, without text, or empty after trimming and removing the control
\* characters gives "Untitled Note".
C18_TitleNeverEmpty ==
    cpc \in {"parsed", "rendered"} =>
        /\ parsed.title # <<>>
        /\ (~note_elem.title.present \/ clean_text(note_elem.title.text) = <<>>) =>
               parsed.title = UntitledNote

\* The strings of the rendered body.
RenderedBody == {markdown[Len(markdown)][i] : i \in 1..Len(markdown[Len(markdown)])}

\* The filenames of the resources of the note whose data has this hash.
FilenamesOf(hash) ==
    {note_elem.resources[i].filename[1] :
        i \in {j \in 1..Len(note_elem.resources) : note_elem.resources[j].md5 = hash}}

\* C19: every <en-media> element with a hash is rendered as a reference to
\* the filename of the resource with that hash, or as a placeholder that
\* carries the hash.
C19_MediaKeepsHashOrFilename ==
    cpc = "rendered" =>
        \A i \in 1..Len(note_elem.content.text) :
            LET item == note_elem.content.text[i]
            IN  (item.tag = "en-media" /\ item.arg # NoHash) =>
                    \/ item.arg \in RenderedBody
                    \/ FilenamesOf(item.arg) \cap RenderedBody # {}

\* ------------------------------------------- end of a session: claims
\* C20: at the end of a session (every note of the bundle set classified and
\* committed or skipped, then detect_deleted_notes), every note presented has
\* a live record in processed_notes with the note's content fingerprint and
\* an output file that exists.
C20_PresentedNotesStayLive ==
    dpc = "reconciled" =>
        \A i \in 1..Len(bundle) :
            \E id \in DOMAIN processed_notes :
                /\ processed_notes[id].content_hash
                       = calculate_content_hash(bundle[i].content)
                /\ processed_notes[id].output_file \in files

\* --------------------------------------------- interrupted runs: claims
\* C21: when a run is interrupted after notes were written and committed in
\* memory, before finalize_sync, the next run over the same bundle files, if
\* it runs to its end without failure, leaves one document on disk for each
\* of those notes.
C21_ResumedRunWritesNoSecondCopy ==
    (rpc = "idle" /\ run.finished /\ run.resumed /\ run.failed = 0 /\ run.plain) =>
        \A id \in run.cut : Cardinality(DocumentsOf(id)) = 1

\* ------------------------------------------- deletion detection: claims
\* The records committed by mark_note_processed in the session that is open.
CommittedInSession ==
    {id \in DOMAIN processed_notes :
        processed_notes[id].migration_id = last_migration}

\* C22: detect_deleted_notes, called with the external ids of the notes
\* presented in the session, does not move a note committed in that session
\* to deleted_notes and does not remove its output file, whether the note
\* has an external id or not.
C22_CommittedNoteSurvivesDetection ==
    [][DetectDeletedNotes =>
          \A id \in CommittedInSession :
              /\ id \in DOMAIN processed_notes'
              /\ id \in DOMAIN deleted_notes' => id \in DOMAIN deleted_notes
              /\ processed_notes[id].output_file \in files
                     => processed_notes[id].output_file \in files']_vars

\* ------------------------------------------------ failed notes: claims
\* Every note of the configured bundle files has a complete document.
EveryNoteWritten ==
    \A i \in 1..Len(AllNotes(inputs)) :
        \E p \in DOMAIN vault : vault[p] = Document(AllNotes(inputs)[i], TRUE)

\* C23: a bundle file is recorded as processed only when all its notes were
\* committed, so a note that failed is attempted again by the next run over
\* the unchanged file: a run that ends without a failure leaves every note
\* of the bundle files written.
C23_FailedNoteIsRetried ==
    /\ [][EndBundle => run.converted_count = run.planned]_vars
    /\ []((run.finished /\ run.failed = 0 /\ WellFormedInputs) => EveryNoteWritten)

\* ---------------------------------------------- session entries: claims
\* The entry appended by the start_migration call of the open session.
OpenEntry == Len(migrations)

\* The counters of the notes committed or skipped since start_migration.
SessionStats ==
    [total_notes |-> idx - 1,
     new_notes |-> session.written - session.updates,
     updated_notes |-> session.updates,
     skipped_duplicates |-> (idx - 1) - session.written]

\* C24: finish_migration(success) leaves the entry appended by the
\* start_migration call of the session with status 'completed' or 'failed',
\* an end_time and the counters of the notes committed or skipped in the
\* session, and persists the history; no finished session stays 'running'.
C24_FinishClosesOwnEntry ==
    /\ [][\A ok \in BOOLEAN :
             FinishMigration(ok) =>
                 /\ migrations'[OpenEntry].status
                        = IF ok THEN "completed" ELSE "failed"
                 /\ migrations'[OpenEntry].ended
                 /\ migrations'[OpenEntry].stats = SessionStats
                 /\ persisted' = [History EXCEPT !.migrations = migrations']]_vars
    /\ [](dpc = "idle" =>
             \A i \in 1..Len(migrations) : migrations[i].status # "running")

\* ------------------------------------------- history invariants: claims
\* C25: no note_id is in processed_notes and in deleted_notes at once.
C25_LiveAndDeletedDisjoint ==
    DOMAIN processed_notes \cap DOMAIN deleted_notes = {}

\* C26: the content fingerprints of the live records are pairwise distinct.
C26_LiveFingerprintsDistinct ==
    \A id1, id2 \in DOMAIN processed_notes :
        processed_notes[id1].content_hash = processed_notes[id2].content_hash
            => id1 = id2

\* The records whose output_file does not exist.
Orphans(processed, disk) ==
    {id \in DOMAIN processed : processed[id].output_file \notin disk}

\* C27: clean_orphaned_files removes from processed_notes exactly the
\* records whose output_file does not exist and returns their number; the
\* other records, deleted_notes, the sessions and the files are unchanged,
\* and a call that follows immediately finds nothing to remove.
C27_SweepRemovesExactlyOrphans ==
    [][CleanOrphanedFiles =>
          LET orphans == Orphans(processed_notes, files)
          IN  /\ DOMAIN processed_notes' = DOMAIN processed_notes \ orphans
              /\ \A id \in DOMAIN processed_notes' :
                     processed_notes'[id] = processed_notes[id]
              /\ session'.cleaned = Cardinality(orphans)
              /\ deleted_notes' = deleted_notes
              /\ migrations' = migrations
              /\ files' = files
              /\ Orphans(processed_notes', files') = {}]_vars

\* clean_orphaned_files has removed a record and kept another one.
C27_Witness ==
    /\ dpc = "idle"
    /\ session.cleaned > 0
    /\ processed_notes # EmptyMap
    /\ Orphans(processed_notes, files) = {}

\* C28: every change-detection comparison applies the same normalization:
\* when the committed body and the presented body are equal once trimmed
\* and right-trimmed line by line, should_process_note (same id),
\* is_note_changed and should_process_file all report the note as unchanged.
C28_ComparisonsNormalizeAlike ==
    calculate_content_hash(compare.old) = calculate_content_hash(compare.new)
        => /\ compare.note # "changed"
           /\ compare.sync # "changed"
           /\ compare.file # "changed"

\* ---------------------------------------------- session counters: claims
OutcomeCounters == {"new_notes", "updated_notes", "skipped_duplicates"}

CountersAddUp(stats) ==
    stats.total_notes
        = stats.new_notes + stats.updated_notes + stats.skipped_duplicates

\* C29: in every state of the history total_notes of each session is the
\* sum of new_notes, updated_notes and skipped_duplicates; no counter ever
\* decreases; each mark_note_processed and mark_note_skipped of an open
\* session adds one to total_notes and to exactly one other counter of one
\* session and changes no other session.
C29_CountersAddUpAndGrow ==
    /\ [](\A i \in 1..Len(migrations) : CountersAddUp(migrations[i].stats))
    /\ [][/\ Len(migrations') >= Len(migrations)
          /\ \A i \in 1..Len(migrations) :
                 \A k \in OutcomeCounters \cup {"total_notes"} :
                     migrations'[i].stats[k] >= migrations[i].stats[k]]_vars
    /\ [][(MarkNoteSkipped \/ \E is_update \in BOOLEAN :
                                  MarkNoteProcessed(is_update))
             => \E i \in 1..Len(migrations) :
                    /\ \E k \in OutcomeCounters :
                           migrations'[i].stats =
                               [migrations[i].stats EXCEPT
                                   ![k] = @ + 1, !.total_notes = @ + 1]
                    /\ \A j \in 1..Len(migrations) :
                           j # i => migrations'[j] = migrations[j]]_vars

\* A session entry has counted a new note, an updated note and a skipped
\* one.
C29_Witness ==
    \E i \in 1..Len(migrations) :
        /\ migrations[i].stats.new_notes > 0
        /\ migrations[i].stats.updated_notes > 0
        /\ migrations[i].stats.skipped_duplicates > 0

\* --------------------------------------------- unreadable history: claims
\* The note presented has a body whose fingerprint no note committed since
\* the manager was constructed over an unreadable history file carried.
PresentedAfterUnreadable ==
    /\ ShouldProcessNote
    /\ session.fresh
    /\ calculate_content_hash(bundle[idx].content) \notin session.committed

====
